---- MODULE Spec2Model ----
(***************************************************************************)
(* Model of backend/analyzer.py: the MMPS similarity fusion, the sliding-   *)
(* window search, the candlestick detector, the pattern validator and the   *)
(* outcome statistics.                                                      *)
(*                                                                          *)
(* Numbers.  Prices and volumes are integers.  Every float the code         *)
(* computes is kept in fixed point:                                         *)
(*   - a normalised close n in [0,1] is the integer n*NS;                   *)
(*   - the argument of exp(-x) is the integer x*ES;                         *)
(*   - a similarity s in [0,1] is reported, as the code reports it, as the  *)
(*     percentage round(100*s, 2); the model holds it in hundredths of a    *)
(*     percent, 0..PCT (10000 = 100.00).                                    *)
(***************************************************************************)
EXTENDS Integers, Sequences, FiniteSets, TLC

VARIABLES
    pc,             \* position of the run
    series,         \* df: the price series, a sequence of bars
    lookback,       \* EnhancedPatternEngine.lookback_days (request arg lookback)
    top_n,          \* request arg top_n
    similar,        \* what find_most_similar_pattern returned (or that it raised)
    pattern_result, \* what find_similar_patterns returned (or that it raised)
    enhanced,       \* analyze_stock: enhanced_matches
    patterns,       \* candlestick_patterns (detector output, newest first)
    validated,      \* validated_patterns
    pattern_stats,  \* calculate_pattern_statistics result
    recent,         \* recent_patterns
    qwin,           \* mmps_similarity: query_df
    cwin,           \* mmps_similarity: candidate_df
    score           \* mmps_similarity: returned dict

vars == <<pc, series, lookback, top_n, similar, pattern_result, enhanced, patterns,
          validated, pattern_stats, recent, qwin, cwin, score>>

----------------------------------------------------------------------------
(* Fixed-point scales *)

NS == 24        \* normalised close: n*NS
FS == 120       \* candle feature (body/range ...): f*FS
ES == 1000      \* exp argument: x*ES
PCT == 10000    \* 100.00 percent in hundredths of a percent
PPM == 1000000 \* 100 percent in units of 0.0001 percent
HalfBits == 64  \* DTW inputs are n*NS*HalfBits so that repeated halving is exact

\* Python None where a string is expected
NONE == "None"
\* an optional value (a number or a dict that may be None): <<>> is None and
\* <<v>> is the value v
None == <<>>
Some(v) == <<v>>

Abs(x) == IF x < 0 THEN -x ELSE x
Max2(a, b) == IF a >= b THEN a ELSE b
Min2(a, b) == IF a <= b THEN a ELSE b

\* the sum of s[lo..hi]; the range is split in halves to keep the evaluation
\* shallow
RECURSIVE SumRange(_, _, _)
SumRange(s, lo, hi) ==
    IF lo > hi THEN 0
    ELSE IF lo = hi THEN s[lo]
    ELSE LET mid == (lo + hi) \div 2
         IN  SumRange(s, lo, mid) + SumRange(s, mid + 1, hi)

SumSeq(s) == SumRange(s, 1, Len(s))

SeqMax(s) == CHOOSE m \in {s[i] : i \in DOMAIN s} : \A i \in DOMAIN s : s[i] <= m
SeqMin(s) == CHOOSE m \in {s[i] : i \in DOMAIN s} : \A i \in DOMAIN s : s[i] >= m

\* np.argmax / np.argmin: 0-based position of the first extreme value
ArgMax(s) == (CHOOSE i \in DOMAIN s : s[i] = SeqMax(s) /\ \A j \in 1..(i-1) : s[j] # s[i]) - 1
ArgMin(s) == (CHOOSE i \in DOMAIN s : s[i] = SeqMin(s) /\ \A j \in 1..(i-1) : s[j] # s[i]) - 1

\* floor(sqrt(n)) by bisection
RECURSIVE SqrtBetween(_, _, _)
SqrtBetween(n, lo, hi) ==
    IF lo >= hi THEN lo
    ELSE LET mid == (lo + hi + 1) \div 2
         IN  IF mid * mid <= n THEN SqrtBetween(n, mid, hi)
                               ELSE SqrtBetween(n, lo, mid - 1)
ISqrt(n) == SqrtBetween(n, 0, Min2(n, 46340))

\* round-half-up division of non-negative a by positive b
RoundDiv(a, b) == (2 * a + b) \div (2 * b)
\* the same for a of either sign
\* a / b rounded to the nearest integer, ties to the even one (a >= 0, b > 0)
RoundHalfEven(a, b) ==
    LET n == a \div b
        r == a % b
    IN  IF 2 * r < b THEN n
        ELSE IF 2 * r > b THEN n + 1
        ELSE IF n % 2 = 0 THEN n ELSE n + 1

\* the counts p of k whose double p / k * 100 falls just off a tie that the
\* exact quotient hits, with the tenths Python's round gives for them
OffTie == {<<23, 80, 287>>, <<49, 80, 613>>, <<51, 80, 637>>}

\* round(p / k * 100, 1) in tenths of a percent (0 <= p <= k, 0 < k < 130)
PercentRound1(p, k) ==
    IF \E t \in OffTie : t[1] = p /\ t[2] = k
    THEN (CHOOSE t \in OffTie : t[1] = p /\ t[2] = k)[3]
    ELSE RoundHalfEven(p * 1000, k)

RoundS(a, b) == IF a >= 0 THEN RoundDiv(a, b) ELSE -RoundDiv(-a, b)

\* <<q, r>> with a*b = q*c + r, 0 <= r < c, computed without forming a*b
RECURSIVE MulDivRem(_, _, _)
MulDivRem(a, b, c) ==
    IF b = 0 THEN <<0, 0>>
    ELSE LET h == MulDivRem(a, b \div 2, c)
             t == 2 * h[2] + (b % 2) * a
         IN  <<2 * h[1] + (t \div c), t % c>>
MulDiv(a, b, c) == MulDivRem(a, b, c)[1]

\* 10000 * e^-k for k = 0, 1, 2, ...
ExpInt == <<10000, 3679, 1353, 498, 183, 67, 25, 9, 3, 1>>

\* Taylor series of e^-f, f = fm/ES in [0,1), at scale 100000
RECURSIVE ExpTaylor(_, _, _, _)
ExpTaylor(fm, k, term, acc) ==
    IF term = 0 \/ k > 12 THEN acc
    ELSE LET nxt == (term * fm) \div (ES * k)
         IN  ExpTaylor(fm, k + 1, nxt,
                       IF k % 2 = 1 THEN acc - nxt ELSE acc + nxt)

\* np.exp(-x) for x = xm/ES >= 0, as the percentage round(100*e^-x, 2)
ExpNeg(xm) ==
    LET k == xm \div ES
        frac == ExpTaylor(xm % ES, 1, 100000, 100000)
    IN  IF k >= Len(ExpInt) THEN 0
        ELSE RoundDiv(frac * ExpInt[k + 1], 100000)

----------------------------------------------------------------------------
(* fastdtw(x, y, dist=euclidean), radius 1, as called by mmps_similarity.   *)
(* The inputs are 1-D, so dist is the absolute difference.  Cells are       *)
(* 0-based pairs <<i, j>> as in the library; sequences are 1-based.         *)

Radius == 1
Inf == 1000000000

NoCost == <<Inf, 0, 0>>

\* the cost table D: row 0 holds the origin D[0,0] = (0,0,0); every cell not
\* yet set reads as (inf,)
Row0(ly) == [j \in 0..ly |-> IF j = 0 THEN <<0, 0, 0>> ELSE NoCost]
Cell(D, ly, i, j) == IF i = 0 THEN Row0(ly)[j] ELSE D[i][j]

\* __dtw: the cells first+1..j of table row i (the window's run of that row),
\* in window order; on equal cost min() keeps the first of
\* (i-1,j), (i,j-1), (i-1,j-1)
RECURSIVE DtwRow(_, _, _, _, _, _)
DtwRow(xi, y, i, prev, first, j) ==
    IF j <= first THEN [c \in 0..Len(y) |-> NoCost]
    ELSE LET row == DtwRow(xi, y, i, prev, first, j - 1)
             dt == Abs(xi - y[j])
             up == Min2(prev[j][1] + dt, Inf)
             left == Min2(row[j-1][1] + dt, Inf)
             diag == Min2(prev[j-1][1] + dt, Inf)
             best == IF up <= left /\ up <= diag THEN <<up, i-1, j>>
                     ELSE IF left <= diag THEN <<left, i, j-1>>
                     ELSE <<diag, i-1, j-1>>
         IN  [row EXCEPT ![j] = best]

\* __dtw: table rows 1..i; win[i] = <<first, last>> is the window's run of
\* 0-based columns in row i-1
RECURSIVE DtwRows(_, _, _, _)
DtwRows(x, y, win, i) ==
    IF i = 0 THEN <<>>
    ELSE LET D == DtwRows(x, y, win, i - 1)
             prev == IF i = 1 THEN Row0(Len(y)) ELSE D[i-1]
         IN  Append(D, DtwRow(x[i], y, i, prev, win[i][1], win[i][2] + 1))

\* __dtw: walk the predecessors back from the last cell
RECURSIVE DtwPath(_, _, _, _)
DtwPath(D, ly, i, j) ==
    IF i = 0 /\ j = 0 THEN <<>>
    ELSE Append(DtwPath(D, ly, Cell(D, ly, i, j)[2], Cell(D, ly, i, j)[3]),
                <<i-1, j-1>>)

\* window = None: every cell
FullWindow(lx, ly) == [i \in 1..lx |-> <<0, ly - 1>>]

\* __dtw(x, y, window): [dist |-> distance, path |-> warp path]
Dtw(x, y, win) ==
    LET lx == Len(x)
        ly == Len(y)
        D == DtwRows(x, y, win, lx)
    IN  [dist |-> Cell(D, ly, lx, ly)[1], path |-> DtwPath(D, ly, lx, ly)]

\* __reduce_by_half
ReduceByHalf(x) ==
    [k \in 1..(Len(x) \div 2) |-> (x[2*k - 1] + x[2*k]) \div 2]

\* __expand_window: one row of the window, the first unbroken run of cells
\* of row i at or after start_j
RowFirst(W, i, start_j, ly) ==
    CHOOSE j \in start_j..(ly-1) :
        <<i, j>> \in W /\ \A k \in start_j..(j-1) : <<i, k>> \notin W
RowLast(W, i, first, ly) ==
    CHOOSE j \in first..(ly-1) :
        /\ \A k \in first..j : <<i, k>> \in W
        /\ (j = ly - 1 \/ <<i, j+1>> \notin W)

RECURSIVE WindowRows(_, _, _, _, _)
WindowRows(W, i, start_j, lx, ly) ==
    IF i >= lx THEN <<>>
    ELSE LET first == RowFirst(W, i, start_j, ly)
         IN  <<<<first, RowLast(W, i, first, ly)>>>>
             \o WindowRows(W, i + 1, first, lx, ly)

\* __expand_window: the path widened by the radius, doubled in resolution,
\* kept as one run of columns per row
ExpandWindow(path, lx, ly) ==
    LET near == UNION {{<<path[k][1] + a, path[k][2] + b>> :
                           a \in (-Radius)..Radius, b \in (-Radius)..Radius} :
                       k \in DOMAIN path}
        W == UNION {{<<2*c[1], 2*c[2]>>, <<2*c[1], 2*c[2] + 1>>,
                     <<2*c[1] + 1, 2*c[2]>>, <<2*c[1] + 1, 2*c[2] + 1>>} :
                    c \in near}
    IN  WindowRows(W, 0, 0, lx, ly)

\* __fastdtw
RECURSIVE FastDtwRec(_, _)
FastDtwRec(x, y) ==
    IF Len(x) < Radius + 2 \/ Len(y) < Radius + 2
    THEN Dtw(x, y, FullWindow(Len(x), Len(y)))
    ELSE LET low == FastDtwRec(ReduceByHalf(x), ReduceByHalf(y))
         IN  Dtw(x, y, ExpandWindow(low.path, Len(x), Len(y)))

\* fastdtw(n1_2d, n2_2d, dist=euclidean)[0], in units of 1/(NS*HalfBits)
FastDtw(n1, n2) ==
    FastDtwRec([i \in DOMAIN n1 |-> n1[i] * HalfBits],
               [i \in DOMAIN n2 |-> n2[i] * HalfBits]).dist

----------------------------------------------------------------------------
(* mmps_similarity *)

Trailing(df, L) == SubSeq(df, Len(df) - L + 1, Len(df))
Closes(df) == [i \in DOMAIN df |-> df[i].close]

\* (c - c.min()) / (c.max() - c.min() + 1e-9): the epsilon only matters for a
\* flat window, which it sends to all zeros
MmpsNorm(c) ==
    LET lo == SeqMin(c)
        hi == SeqMax(c)
    IN  [i \in DOMAIN c |-> IF hi = lo THEN 0 ELSE ((c[i] - lo) * NS) \div (hi - lo)]

\* feats(df): body, upper shadow, lower shadow over (range + 1e-9); a
\* zero-range bar of clean data has all three zero
Feats(df) ==
    [i \in DOMAIN df |->
        LET b == df[i]
            rng == b.high - b.low
            body == Abs(b.close - b.open)
            upper == b.high - Max2(b.close, b.open)
            lower == Min2(b.close, b.open) - b.low
        IN  IF rng = 0 THEN <<0, 0, 0>>
            ELSE <<(body * FS) \div rng, (upper * FS) \div rng, (lower * FS) \div rng>>]

\* np.gradient(n), doubled so that the central differences stay integers
Gradient2(n) ==
    LET L == Len(n)
    IN  [i \in 1..L |-> IF i = 1 THEN 2 * (n[2] - n[1])
                        ELSE IF i = L THEN 2 * (n[L] - n[L-1])
                        ELSE n[i+1] - n[i-1]]

Dot(u, v) == SumSeq([i \in DOMAIN u |-> u[i] * v[i]])

\* np.dot(g1, g2) / (norm(g1) * norm(g2)), times 10000
Cosine(g1, g2) ==
    LET d == Dot(g1, g2)
        q == Dot(g1, g1) * Dot(g2, g2)
        c == ISqrt(MulDiv(d * d, 100000000, q))
    IN  IF d < 0 THEN -c ELSE c

\* np.std(g) times 20*L*NS
Std20(g2) ==
    LET L == Len(g2)
        s == SumSeq(g2)
    IN  ISqrt(100 * (L * Dot(g2, g2) - s * s))

shape_sim(n1, n2) ==
    LET d == [i \in DOMAIN n1 |-> n1[i] - n2[i]]
        dist100 == ISqrt(10000 * Dot(d, d))
    IN  ExpNeg((15 * dist100 * ES) \div (1000 * NS))

dtw_sim(n1, n2) == ExpNeg((FastDtw(n1, n2) * ES) \div (2 * NS * HalfBits))

struct_sim(d1, d2) ==
    LET A == Feats(d1)
        B == Feats(d2)
        norms == [i \in DOMAIN A |->
                    ISqrt(100 * ((A[i][1] - B[i][1]) * (A[i][1] - B[i][1])
                               + (A[i][2] - B[i][2]) * (A[i][2] - B[i][2])
                               + (A[i][3] - B[i][3]) * (A[i][3] - B[i][3])))]
    IN  ExpNeg((12 * SumSeq(norms) * ES) \div (100 * Len(A) * FS))

\* a faulty variant of trend_sim: the cosine is not mapped from [-1,1] to [0,1]
trend_sim_unmapped(g1, g2) ==
    IF Dot(g1, g1) > 0 /\ Dot(g2, g2) > 0 THEN Cosine(g1, g2) ELSE 0

trend_sim(g1, g2) ==
    LET denom_pos == Dot(g1, g1) > 0 /\ Dot(g2, g2) > 0
        cos == IF denom_pos THEN Cosine(g1, g2) ELSE 0
    IN  RoundDiv(cos + 10000, 2)

vol_sim(g1, g2) ==
    ExpNeg((3 * Abs(Std20(g1) - Std20(g2)) * ES) \div (20 * Len(g1) * NS))

turn_sim(n1, n2) ==
    LET L == Len(n1)
        err == Abs(ArgMax(n1) - ArgMax(n2)) + Abs(ArgMin(n1) - ArgMin(n2))
    IN  ExpNeg((5 * err * ES) \div L)

mmps_similarity(query_df, candidate_df) ==
    LET L == Min2(Len(query_df), Len(candidate_df))
        d1 == Trailing(query_df, L)
        d2 == Trailing(candidate_df, L)
        n1 == MmpsNorm(Closes(d1))
        n2 == MmpsNorm(Closes(d2))
        g1 == Gradient2(n1)
        g2 == Gradient2(n2)
        sh == shape_sim(n1, n2)
        dt == dtw_sim(n1, n2)
        st == struct_sim(d1, d2)
        tr == trend_sim(g1, g2)
        vo == vol_sim(g1, g2)
        tu == turn_sim(n1, n2)
    IN  [final |-> RoundDiv(25 * sh + 20 * dt + 20 * st + 15 * tr + 10 * vo + 10 * tu, 100),
         shape |-> sh, dtw |-> dt, structure |-> st, trend |-> tr,
         volatility |-> vo, turning |-> tu]

----------------------------------------------------------------------------
(* Input data.  A bar is [date, open, high, low, close, volume]; a series   *)
(* is a sequence of bars with strictly increasing dates (fetch_data sorts   *)
(* by date).  Series are drawn from a few repeating tapes of bar shapes     *)
(* <<open, close, upper shadow, lower shadow>>; every bar built this way    *)
(* has high >= max(open, close) and low <= min(open, close).                *)

\* one bar of every candlestick shape the detector knows, in sequence
ShowTape ==
    << <<12,12,1,1>>, <<13,14,0,3>>, <<11,10,3,0>>, <<14,12,0,0>>,
       <<11,14,0,0>>, <<15,10,0,1>>, <<11,12,0,0>>, <<10,14,1,0>>,
       <<13,12,0,0>>, <<15,11,0,1>>, <<9,14,0,0>>,  <<10,14,1,0>>,
       <<16,11,0,0>>, <<10,10,1,1>>, <<11,14,0,0>>, <<14,14,1,1>>,
       <<13,11,0,0>>, <<11,12,0,0>>, <<12,13,0,0>>, <<13,14,0,0>>,
       <<14,13,0,0>>, <<13,12,0,0>>, <<12,11,0,0>> >>
\* closes 10,11,10,11,...
ZigTape == << <<11,10,1,0>>, <<10,11,0,1>> >>
\* two six-bar waves
WaveTape == << <<11,10,0,0>>, <<10,12,1,0>>, <<12,12,1,1>>, <<12,12,0,2>>,
               <<12,11,0,0>>, <<11,10,2,1>> >>
DipTape == << <<11,12,0,0>>, <<12,10,0,1>>, <<10,11,1,1>>, <<11,10,0,0>>,
              <<10,12,0,0>>, <<12,11,1,0>> >>
\* a flat series of zero-range bars
FlatTape == << <<12,12,0,0>> >>

Tapes == <<ShowTape, ZigTape, WaveTape, DipTape, FlatTape>>

\* every third bar trades at double volume
Volume(k) == IF k % 3 = 0 THEN 200 ELSE 100

MkBar(d, t, v) ==
    [date |-> d, open |-> t[1], close |-> t[2],
     high |-> Max2(t[1], t[2]) + t[3], low |-> Min2(t[1], t[2]) - t[4],
     volume |-> v]

\* N bars of tape t starting at offset seed; bar k (0-based) is dated k+1
MkSeries(t, seed, N) ==
    [i \in 1..N |-> MkBar(i, Tapes[t][((i - 1 + seed) % Len(Tapes[t])) + 1],
                          Volume(i - 1 + seed))]

\* df.iloc[i], df.iloc[a:b], len(df)
At(df, i) == df[i + 1]
Slice(df, a, b) == SubSeq(df, a + 1, b)

----------------------------------------------------------------------------
(* EnhancedPatternEngine *)

Horizons == <<1, 3, 5, 7, 10>>

\* ((future_price - base_price) / base_price) * 100 rounded to 2 decimals, in
\* hundredths of a percent
ReturnPct(base, future) == RoundS((future - base) * PCT, base)

\* the same return before any rounding, in units of 0.0001 percent
ReturnPpm(base, future) == RoundS((future - base) * PPM, base)

\* round(x, 2) of a value held in units of 0.0001 percent, in hundredths
Round2(x, n) == RoundS(x, n * (PPM \div PCT))

\* a faulty variant of ScanStarts: the loop runs up to the query window's own
\* start, over windows that share bars with it
ScanStartsOverlapping(N, window_size) == [k \in 1..(N - window_size) |-> k - 1]

\* range(max_start_idx) with max_start_idx = len(df) - 2 * window_size: the
\* start indexes in the order the loop visits them
ScanStarts(N, window_size) == [k \in 1..(N - 2 * window_size) |-> k - 1]

\* the loop of find_most_similar_pattern: one row per start index
ScanRows(df, window_size) ==
    LET N == Len(df)
        query_df_slice == Slice(df, N - window_size, N)
        starts == ScanStarts(N, window_size)
    IN  [k \in DOMAIN starts |->
            LET i == starts[k]
                mmps == mmps_similarity(query_df_slice, Slice(df, i, i + window_size))
            IN  [start_idx |-> i,
                 mmps |-> mmps.final,
                 mmps_components |-> mmps,
                 start_date |-> At(df, i).date,
                 end_date |-> At(df, i + window_size - 1).date]]

\* a faulty variant of SortedHeads: the sort ascending (ascending=False dropped)
RECURSIVE SortedHeadsAscending(_, _, _)
SortedHeadsAscending(rows, left, k) ==
    IF k = 0 \/ left = {} THEN {<<>>}
    ELSE LET low == {p \in left : \A q \in left : rows[q].mmps >= rows[p].mmps}
         IN  UNION {{<<p>> \o t : t \in SortedHeadsAscending(rows, left \ {p}, k - 1)} :
                    p \in low}

\* sort_values('mmps', ascending=False).head(k): pandas sorts with its default
\* kind, quicksort, which does not keep equal keys in their original order; every
\* order of the rows with non-increasing mmps is a possible outcome.  The heads
\* of length k of those orders, as sequences of row positions:
RECURSIVE SortedHeads(_, _, _)
SortedHeads(rows, left, k) ==
    IF k = 0 \/ left = {} THEN {<<>>}
    ELSE LET top == {p \in left : \A q \in left : rows[q].mmps <= rows[p].mmps}
         IN  UNION {{<<p>> \o t : t \in SortedHeads(rows, left \ {p}, k - 1)} : p \in top}

\* find_most_similar_pattern: the set of possible outcomes.  An outcome is
\* [raised, error, rows]; sort_values on the column-less frame built from an
\* empty result list raises KeyError('mmps')
find_most_similar_pattern(df, window_size, n) ==
    IF Len(df) < 2 * window_size
    THEN {[raised |-> FALSE, error |-> NONE, rows |-> <<>>]}
    ELSE LET results == ScanRows(df, window_size)
         IN  IF Len(results) = 0
             THEN {[raised |-> TRUE, error |-> "KeyError", rows |-> <<>>]}
             ELSE {[raised |-> FALSE, error |-> NONE,
                    rows |-> [j \in DOMAIN h |-> results[h[j]]]] :
                   h \in SortedHeads(results, DOMAIN results, n)}

\* a reason string; n and avg are the numbers the f-string of _generate_analysis
\* formats into it (0 for the fixed strings)
Reason(text, n, avg) == [text |-> text, n |-> n, avg |-> avg]

\* no analysis at all (nothing was returned)
NoAnalysis == [signal |-> NONE, confidence |-> 0, mean_similarity |-> None,
               reason |-> Reason(NONE, 0, 0)]

\* _empty_result
EmptyResult(reason) ==
    [raised |-> FALSE, error |-> NONE,
     matches |-> <<>>,
     predictions |-> <<>>,
     analysis |-> [signal |-> "NEUTRAL", confidence |-> 0, mean_similarity |-> None,
                   reason |-> Reason(reason, 0, 0)],
     debug_info |-> reason]

\* s in ascending order: the k-th value is the one with fewer than k values
\* below it and at least k values not above it
SortInts(s) ==
    [k \in 1..Len(s) |->
        CHOOSE v \in {s[i] : i \in DOMAIN s} :
            /\ Cardinality({i \in DOMAIN s : s[i] < v}) < k
            /\ k <= Cardinality({i \in DOMAIN s : s[i] <= v})]

\* round(np.median(xs), 2) of values in units of 0.0001 percent, in hundredths
Median(xs) ==
    LET t == SortInts(xs)
        n == Len(t)
    IN  IF n % 2 = 1 THEN Round2(t[(n + 1) \div 2], 1)
        ELSE Round2(t[n \div 2] + t[n \div 2 + 1], 2)

\* np.std (population) of values in hundredths; the returns are rounded to
\* hundredths before the squares are taken, which keeps the sums in range
StdDev(xs) ==
    LET n == Len(xs)
        sm == SumSeq(xs)
    IN  RoundDiv(ISqrt(n * Dot(xs, xs) - sm * sm), n)

Count(s, Test(_)) == Len(SelectSeq(s, Test))

\* a faulty variant of _calculate_predictions: a horizon without a sample is
\* left out
calculate_predictions_sampled(matches, df, window_size) ==
    LET HasSample(hk) ==
            \E j \in DOMAIN matches :
                matches[j].start_idx + window_size + Horizons[hk] < Len(df)
        kept == SelectSeq([hk \in DOMAIN Horizons |-> hk], HasSample)
    IN  IF matches = <<>> THEN <<>>
        ELSE [q \in DOMAIN kept |->
                LET days == Horizons[kept[q]]
                    HasFuture(m) == m.start_idx + window_size + days < Len(df)
                    with == SelectSeq(matches, HasFuture)
                    returns_list ==
                        [j \in DOMAIN with |->
                            ReturnPpm(At(df, with[j].start_idx + window_size).close,
                                      At(df, with[j].start_idx + window_size + days).close)]
                    rounded == [j \in DOMAIN returns_list |-> Round2(returns_list[j], 1)]
                    Positive(r) == r > 0
                IN  [days |-> days,
                     mean |-> Some(Round2(SumSeq(returns_list), Len(returns_list))),
                     median |-> Some(Median(returns_list)),
                     std |-> Some(StdDev(rounded)),
                     min |-> Some(Round2(SeqMin(returns_list), 1)),
                     max |-> Some(Round2(SeqMax(returns_list), 1)),
                     count |-> Len(returns_list),
                     positive_rate |-> Some(PercentRound1(Count(returns_list, Positive),
                                                          Len(returns_list)))]]

\* _calculate_predictions(matches, df): one entry per horizon, in Horizons order
calculate_predictions(matches, df, window_size) ==
    IF matches = <<>> THEN <<>>
    ELSE [hk \in DOMAIN Horizons |->
            LET days == Horizons[hk]
                HasFuture(m) == m.start_idx + window_size + days < Len(df)
                with == SelectSeq(matches, HasFuture)
                returns_list ==
                    [j \in DOMAIN with |->
                        ReturnPpm(At(df, with[j].start_idx + window_size).close,
                                  At(df, with[j].start_idx + window_size + days).close)]
                rounded == [j \in DOMAIN returns_list |-> Round2(returns_list[j], 1)]
                Positive(r) == r > 0
            IN  IF Len(returns_list) > 0
                THEN [days |-> days,
                      mean |-> Some(Round2(SumSeq(returns_list), Len(returns_list))),
                      median |-> Some(Median(returns_list)),
                      std |-> Some(StdDev(rounded)),
                      min |-> Some(Round2(SeqMin(returns_list), 1)),
                      max |-> Some(Round2(SeqMax(returns_list), 1)),
                      count |-> Len(returns_list),
                      positive_rate |-> Some(PercentRound1(Count(returns_list, Positive),
                                                           Len(returns_list)))]
                ELSE [days |-> days, mean |-> None, median |-> None, std |-> None,
                      min |-> None, max |-> None, count |-> 0, positive_rate |-> None]]

\* a faulty variant of _generate_analysis whose thresholds are inclusive
generate_analysis_inclusive(matches) ==
    IF matches = <<>>
    THEN [signal |-> "NEUTRAL", confidence |-> 0, mean_similarity |-> None,
          reason |-> Reason("Insufficient data", 0, 0)]
    ELSE LET total == SumSeq([j \in DOMAIN matches |-> matches[j].mmps])
             n == Len(matches)
             signal == IF total >= 7500 * n THEN "BUY"
                       ELSE IF total >= 6500 * n THEN "HOLD" ELSE "NEUTRAL"
             conf == IF total >= 7500 * n THEN 75
                     ELSE IF total >= 6500 * n THEN 60 ELSE 45
         IN  [signal |-> signal, confidence |-> conf,
              mean_similarity |-> Some(RoundDiv(total, n * 10)),
              reason |-> Reason("Based on n patterns with avg similarity", n,
                                RoundDiv(total, n * 10))]

\* _generate_analysis: avg_similarity is the mean of the matches' mmps
generate_analysis(matches) ==
    IF matches = <<>>
    THEN [signal |-> "NEUTRAL", confidence |-> 0, mean_similarity |-> None,
          reason |-> Reason("Insufficient data", 0, 0)]
    ELSE LET total == SumSeq([j \in DOMAIN matches |-> matches[j].mmps])
             n == Len(matches)
             signal == IF total > 7500 * n THEN "BUY"
                       ELSE IF total > 6500 * n THEN "HOLD" ELSE "NEUTRAL"
             conf == IF total > 7500 * n THEN 75
                     ELSE IF total > 6500 * n THEN 60 ELSE 45
         IN  [signal |-> signal, confidence |-> conf,
              mean_similarity |-> Some(RoundDiv(total, n * 10)),
              reason |-> Reason("Based on n patterns with avg similarity", n,
                                RoundDiv(total, n * 10))]

\* find_most_similar_pattern was not called
NotCalled == [raised |-> FALSE, error |-> "not called", rows |-> <<>>]

\* find_similar_patterns (the second definition in the class, which replaces the
\* first): the set of possible outcomes, each with the outcome of its call of
\* find_most_similar_pattern
find_similar_patterns(df, lookback_days, n) ==
    IF Len(df) < lookback_days + 30 + 10
    THEN {[found |-> NotCalled, result |-> EmptyResult("Not enough historical data")]}
    ELSE {[found |-> found,
           result |->
              IF found.raised
              THEN [raised |-> TRUE, error |-> found.error, matches |-> <<>>,
                    predictions |-> <<>>, analysis |-> NoAnalysis, debug_info |-> NONE]
              ELSE IF found.rows = <<>>
              THEN EmptyResult("No patterns found")
              ELSE [raised |-> FALSE, error |-> NONE,
                    matches |-> found.rows,
                    predictions |-> calculate_predictions(found.rows, df, lookback_days),
                    analysis |-> generate_analysis(found.rows),
                    debug_info |-> "Enhanced MMPS"]] :
          found \in find_most_similar_pattern(df, lookback_days, n)}

\* a faulty variant of calculate_future_returns: no returns at all as soon as
\* one horizon is past the last bar
calculate_future_returns_all_or_none(df, start_idx, window_size) ==
    LET pattern_end_idx == start_idx + window_size
    IN  IF pattern_end_idx + Horizons[Len(Horizons)] >= Len(df) THEN None
        ELSE Some([hk \in DOMAIN Horizons |->
                Some(ReturnPct(At(df, pattern_end_idx).close,
                               At(df, pattern_end_idx + Horizons[hk]).close))])

\* a faulty variant of calculate_future_returns: the returns are measured from
\* the last bar of the window, one bar before the anchor of the predictions
calculate_future_returns_from_last_bar(df, start_idx, window_size) ==
    LET pattern_end_idx == start_idx + window_size - 1
    IN  IF pattern_end_idx >= Len(df) THEN None
        ELSE Some([hk \in DOMAIN Horizons |->
                IF pattern_end_idx + Horizons[hk] < Len(df)
                THEN Some(ReturnPct(At(df, pattern_end_idx).close,
                                    At(df, pattern_end_idx + Horizons[hk]).close))
                ELSE None])

\* calculate_future_returns(df, start_idx, window_size)
calculate_future_returns(df, start_idx, window_size) ==
    LET pattern_end_idx == start_idx + window_size
    IN  IF pattern_end_idx >= Len(df) THEN None
        ELSE Some([hk \in DOMAIN Horizons |->
                IF pattern_end_idx + Horizons[hk] < Len(df)
                THEN Some(ReturnPct(At(df, pattern_end_idx).close,
                                    At(df, pattern_end_idx + Horizons[hk]).close))
                ELSE None])

----------------------------------------------------------------------------
(* CandlestickPatternDetector.  Prices are integers; a threshold that is a  *)
(* decimal fraction in the source is the pair <<numerator, denominator>>.   *)

BULLISH == "bullish"
BEARISH == "bearish"
NEUTRAL == "neutral"
REVERSAL_BULLISH == "reversal_bullish"
REVERSAL_BEARISH == "reversal_bearish"

min_body_ratio == <<1, 10>>
\* a faulty doji threshold: 0.5 for 0.05
doji_threshold_half == <<1, 2>>
doji_threshold == <<1, 20>>
long_shadow_ratio == <<2, 1>>
engulfing_threshold == <<9, 10>>

\* x > y * r and x < y * r for a fraction r
GtTimes(x, y, r) == x * r[2] > y * r[1]
LtTimes(x, y, r) == x * r[2] < y * r[1]

\* _get_candle_metrics, without body_ratio (see BodyRatioLt, BodyRatioGt)
get_candle_metrics(row) ==
    [open |-> row.open, high |-> row.high, low |-> row.low, close |-> row.close,
     body |-> Abs(row.close - row.open),
     range |-> row.high - row.low,
     upper_shadow |-> row.high - Max2(row.close, row.open),
     lower_shadow |-> Min2(row.close, row.open) - row.low,
     is_bullish |-> row.close > row.open]

\* body_ratio = body / (range + 1e-9) compared with a fraction r.  The 1e-9
\* makes the ratio of a zero-range bar 0 and puts a ratio that would equal r
\* just below it.
BodyRatioLt(m, r) == m.body * r[2] <= m.range * r[1]
BodyRatioGt(m, r) == m.body * r[2] > m.range * r[1]

\* the dict a rule appends
Pattern(name, type, confidence, date, i, description, reliability, confirmation, components) ==
    [name |-> name, type |-> type, confidence |-> confidence, date |-> date,
     index |-> i, description |-> description, reliability |-> reliability,
     confirmation |-> confirmation, components |-> components]

\* patterns.append(p) under a condition
Emit(cond, p) == IF cond THEN <<p>> ELSE <<>>

detect_single_patterns(df, i) ==
    LET row == At(df, i)
        metrics == get_candle_metrics(row)
        date == row.date
    IN  Emit(BodyRatioLt(metrics, doji_threshold),
             Pattern("Doji", NEUTRAL, 75, date, i,
                     "Market indecision - potential reversal point", "Medium", FALSE,
                     [price |-> metrics.close]))
        \o
        Emit(/\ GtTimes(metrics.lower_shadow, metrics.body, long_shadow_ratio)
             /\ LtTimes(metrics.upper_shadow, metrics.body, <<3, 10>>)
             /\ BodyRatioGt(metrics, min_body_ratio),
             Pattern("Hammer", REVERSAL_BULLISH, 80, date, i,
                     "Bullish reversal - buyers rejected lower prices", "High", FALSE,
                     [price |-> metrics.close, low |-> metrics.low]))
        \o
        Emit(/\ GtTimes(metrics.upper_shadow, metrics.body, long_shadow_ratio)
             /\ LtTimes(metrics.lower_shadow, metrics.body, <<3, 10>>)
             /\ BodyRatioGt(metrics, min_body_ratio),
             Pattern("Shooting Star", REVERSAL_BEARISH, 80, date, i,
                     "Bearish reversal - sellers rejected higher prices", "High", FALSE,
                     [price |-> metrics.close, high |-> metrics.high]))
        \o
        Emit(/\ BodyRatioLt(metrics, <<3, 10>>)
             /\ metrics.upper_shadow > metrics.body
             /\ metrics.lower_shadow > metrics.body,
             Pattern("Spinning Top", NEUTRAL, 65, date, i,
                     "Indecision - balance between buyers and sellers", "Low", FALSE,
                     [price |-> metrics.close]))

detect_two_candle_patterns(df, i) ==
    LET prev_metrics == get_candle_metrics(At(df, i - 1))
        curr_metrics == get_candle_metrics(At(df, i))
        date == At(df, i).date
        components == [prev_close |-> prev_metrics.close,
                       curr_close |-> curr_metrics.close]
        down_up == ~prev_metrics.is_bullish /\ curr_metrics.is_bullish
        up_down == prev_metrics.is_bullish /\ ~curr_metrics.is_bullish
    IN  Emit(/\ down_up
             /\ curr_metrics.open <= prev_metrics.close
             /\ curr_metrics.close >= prev_metrics.open
             /\ GtTimes(curr_metrics.body, prev_metrics.body, engulfing_threshold),
             Pattern("Bullish Engulfing", REVERSAL_BULLISH, 85, date, i,
                     "Strong bullish reversal - buyers overwhelm sellers", "High",
                     FALSE, components))
        \o
        Emit(/\ up_down
             /\ curr_metrics.open >= prev_metrics.close
             /\ curr_metrics.close <= prev_metrics.open
             /\ GtTimes(curr_metrics.body, prev_metrics.body, engulfing_threshold),
             Pattern("Bearish Engulfing", REVERSAL_BEARISH, 85, date, i,
                     "Strong bearish reversal - sellers overwhelm buyers", "High",
                     FALSE, components))
        \o
        Emit(/\ down_up
             /\ curr_metrics.open >= prev_metrics.close
             /\ curr_metrics.close <= prev_metrics.open
             /\ LtTimes(curr_metrics.body, prev_metrics.body, <<1, 2>>),
             Pattern("Bullish Harami", REVERSAL_BULLISH, 70, date, i,
                     "Potential bullish reversal - selling pressure weakening",
                     "Medium", FALSE, components))
        \o
        Emit(/\ up_down
             /\ curr_metrics.open <= prev_metrics.close
             /\ curr_metrics.close >= prev_metrics.open
             /\ LtTimes(curr_metrics.body, prev_metrics.body, <<1, 2>>),
             Pattern("Bearish Harami", REVERSAL_BEARISH, 70, date, i,
                     "Potential bearish reversal - buying pressure weakening",
                     "Medium", FALSE, components))
        \o
        Emit(/\ down_up
             /\ curr_metrics.open < prev_metrics.low
             /\ 2 * curr_metrics.close > prev_metrics.open + prev_metrics.close
             /\ curr_metrics.close < prev_metrics.open,
             Pattern("Piercing Line", REVERSAL_BULLISH, 75, date, i,
                     "Bullish reversal - strong buying after gap down", "Medium",
                     FALSE, components))
        \o
        Emit(/\ up_down
             /\ curr_metrics.open > prev_metrics.high
             /\ 2 * curr_metrics.close < prev_metrics.open + prev_metrics.close
             /\ curr_metrics.close > prev_metrics.open,
             Pattern("Dark Cloud Cover", REVERSAL_BEARISH, 75, date, i,
                     "Bearish reversal - strong selling after gap up", "Medium",
                     FALSE, components))

detect_three_candle_patterns(df, i) ==
    LET c1 == get_candle_metrics(At(df, i - 2))
        c2 == get_candle_metrics(At(df, i - 1))
        c3 == get_candle_metrics(At(df, i))
        date == At(df, i).date
        components == [c1_close |-> c1.close, c2_close |-> c2.close,
                       c3_close |-> c3.close]
        long_bodies == /\ BodyRatioGt(c1, <<1, 2>>)
                       /\ BodyRatioGt(c2, <<1, 2>>)
                       /\ BodyRatioGt(c3, <<1, 2>>)
    IN  Emit(/\ ~c1.is_bullish
             /\ BodyRatioLt(c2, <<3, 10>>)
             /\ c3.is_bullish
             /\ 2 * c3.close > c1.open + c1.close,
             Pattern("Morning Star", REVERSAL_BULLISH, 90, date, i,
                     "Strong bullish reversal - trend change confirmed", "High",
                     TRUE, components))
        \o
        Emit(/\ c1.is_bullish
             /\ BodyRatioLt(c2, <<3, 10>>)
             /\ ~c3.is_bullish
             /\ 2 * c3.close < c1.open + c1.close,
             Pattern("Evening Star", REVERSAL_BEARISH, 90, date, i,
                     "Strong bearish reversal - trend change confirmed", "High",
                     TRUE, components))
        \o
        Emit(/\ c1.is_bullish /\ c2.is_bullish /\ c3.is_bullish
             /\ c2.close > c1.close /\ c3.close > c2.close
             /\ long_bodies,
             Pattern("Three White Soldiers", BULLISH, 85, date, i,
                     "Strong bullish momentum - sustained buying pressure", "High",
                     TRUE, components))
        \o
        Emit(/\ ~c1.is_bullish /\ ~c2.is_bullish /\ ~c3.is_bullish
             /\ c2.close < c1.close /\ c3.close < c2.close
             /\ long_bodies,
             Pattern("Three Black Crows", BEARISH, 85, date, i,
                     "Strong bearish momentum - sustained selling pressure", "High",
                     TRUE, components))

\* a faulty variant of DetectAt: of the rules that match a bar only the first
\* is reported
DetectAtFirstOnly(df, i) ==
    LET all == detect_single_patterns(df, i)
               \o detect_two_candle_patterns(df, i)
               \o detect_three_candle_patterns(df, i)
    IN  IF all = <<>> THEN <<>> ELSE <<all[1]>>

\* a faulty variant of DetectAt: a fifteenth rule, with a name of its own
DetectAtWithMarubozu(df, i) ==
    detect_single_patterns(df, i)
    \o detect_two_candle_patterns(df, i)
    \o detect_three_candle_patterns(df, i)
    \o Emit(At(df, i).high - At(df, i).low = Abs(At(df, i).close - At(df, i).open),
            Pattern("Marubozu", NEUTRAL, 70, At(df, i).date, i,
                    "No shadows - one side in control", "Medium", FALSE,
                    [price |-> At(df, i).close]))

\* the body of the loop of detect_all_patterns; i >= 2 throughout, so both
\* inner conditions hold
DetectAt(df, i) ==
    detect_single_patterns(df, i)
    \o detect_two_candle_patterns(df, i)
    \o detect_three_candle_patterns(df, i)

\* the loop of detect_all_patterns over bars lo..hi, the patterns of each bar in
\* turn; the range is split in halves to keep the evaluation shallow
RECURSIVE DetectRange(_, _, _)
DetectRange(df, lo, hi) ==
    IF lo > hi THEN <<>>
    ELSE IF lo = hi THEN DetectAt(df, lo)
    ELSE LET mid == (lo + hi) \div 2
         IN  DetectRange(df, lo, mid) \o DetectRange(df, mid + 1, hi)

\* a faulty variant of detect_all_patterns: the scan starts one bar late
detect_all_patterns_from_3(df) == DetectRange(df, 3, Len(df) - 1)

detect_all_patterns(df) == DetectRange(df, 2, Len(df) - 1)

\* list.sort(key=date, reverse=True) is a stable sort: the patterns dated
\* lo..hi, the newest date first and equal dates in their input order
RECURSIVE SortByDateDesc(_, _, _)
SortByDateDesc(ps, lo, hi) ==
    IF lo > hi THEN <<>>
    ELSE IF lo = hi THEN SelectSeq(ps, LAMBDA p : p.date = lo)
    ELSE LET mid == (lo + hi) \div 2
         IN  SortByDateDesc(ps, mid + 1, hi) \o SortByDateDesc(ps, lo, mid)

\* df.tail(n).reset_index(drop=True)
TailReset(df, n) == IF Len(df) <= n THEN df ELSE SubSeq(df, Len(df) - n + 1, Len(df))

\* StockAnalyzer.detect_candlestick_patterns
detect_candlestick_patterns(df, lookback_days) ==
    IF df = <<>> THEN <<>>
    ELSE LET recent_df == TailReset(df, lookback_days)
             all_patterns == detect_all_patterns(recent_df)
             dates == {all_patterns[j].date : j \in DOMAIN all_patterns}
         IN  IF all_patterns = <<>> THEN <<>>
             ELSE SortByDateDesc(all_patterns,
                                 CHOOSE d \in dates : \A e \in dates : d <= e,
                                 CHOOSE d \in dates : \A e \in dates : d >= e)

----------------------------------------------------------------------------
(* PatternValidator *)

trend_period == 20
volume_period == 20

\* the sign of np.polyfit(range(n), y, 1)[0]: the least-squares slope is
\* sum((2k - (n-1)) * y[k]) over a positive denominator
SlopeSign(recent_closes) ==
    LET n == Len(recent_closes)
    IN  SumSeq([k \in 1..n |-> (2 * (k - 1) - (n - 1)) * recent_closes[k]])

\* _get_trend; sma = sum / n, and 1.02, 0.98 are 102/100, 98/100
get_trend(df, idx) ==
    IF idx < trend_period THEN "unknown"
    ELSE LET recent_closes == Closes(Slice(df, idx - trend_period, idx))
             total == SumSeq(recent_closes)
             n == Len(recent_closes)
             current_price == At(df, idx).close
             slope == SlopeSign(recent_closes)
         IN  IF slope > 0 /\ current_price * n * 100 > total * 102 THEN "uptrend"
             ELSE IF slope < 0 /\ current_price * n * 100 < total * 98 THEN "downtrend"
             ELSE "sideways"

\* _check_volume; every bar of a series carries a volume
check_volume(df, idx) ==
    IF idx < volume_period THEN FALSE
    ELSE LET vols == [k \in 1..volume_period |-> At(df, idx - volume_period + k - 1).volume]
         IN  At(df, idx).volume * volume_period * 10 > SumSeq(vols) * 12

\* a faulty variant of _is_trend_appropriate: reversal patterns are expected in
\* the trend they point to
is_trend_appropriate_along(pattern, trend) ==
    IF pattern.type = REVERSAL_BULLISH THEN trend = "uptrend"
    ELSE IF pattern.type = REVERSAL_BEARISH THEN trend = "downtrend"
    ELSE IF pattern.type = BULLISH THEN trend = "uptrend"
    ELSE IF pattern.type = BEARISH THEN trend = "downtrend"
    ELSE TRUE

is_trend_appropriate(pattern, trend) ==
    IF pattern.type = REVERSAL_BULLISH THEN trend = "downtrend"
    ELSE IF pattern.type = REVERSAL_BEARISH THEN trend = "uptrend"
    ELSE IF pattern.type = BULLISH THEN trend = "uptrend"
    ELSE IF pattern.type = BEARISH THEN trend = "downtrend"
    ELSE TRUE

\* pattern[key] = value for each key of changes; a key the dict lacks is added
SetKeys(pattern, changes) == changes @@ pattern

\* a faulty variant of ValidateOne: the boost is not capped at 100
ValidateOneUncapped(pattern, df) ==
    LET idx == pattern.index
    IN  IF idx < trend_period THEN pattern
        ELSE LET trend == get_trend(df, idx)
                 volume_confirmed == check_volume(df, idx)
                 noted == SetKeys(pattern, [trend_context |-> trend,
                                            volume_confirmed |-> volume_confirmed])
             IN  IF volume_confirmed /\ is_trend_appropriate(noted, trend)
                 THEN SetKeys(noted, [confirmation |-> TRUE,
                                      confidence |-> noted.confidence + 10])
                 ELSE noted

\* a faulty variant of ValidateOne: a pattern without enough history is noted
\* as being in an unknown trend
ValidateOneNotingUnknown(pattern, df) ==
    LET idx == pattern.index
    IN  IF idx < trend_period
        THEN SetKeys(pattern, [trend_context |-> get_trend(df, idx),
                               volume_confirmed |-> check_volume(df, idx)])
        ELSE LET trend == get_trend(df, idx)
                 volume_confirmed == check_volume(df, idx)
                 noted == SetKeys(pattern, [trend_context |-> trend,
                                            volume_confirmed |-> volume_confirmed])
             IN  IF volume_confirmed /\ is_trend_appropriate(noted, trend)
                 THEN SetKeys(noted, [confirmation |-> TRUE,
                                      confidence |-> Min2(noted.confidence + 10, 100)])
                 ELSE noted

\* a faulty variant of ValidateOne: confirmation is set to the outcome of the
\* validation, whatever it was before
ValidateOneReconfirming(pattern, df) ==
    LET idx == pattern.index
    IN  IF idx < trend_period THEN pattern
        ELSE LET trend == get_trend(df, idx)
                 volume_confirmed == check_volume(df, idx)
                 noted == SetKeys(pattern, [trend_context |-> trend,
                                            volume_confirmed |-> volume_confirmed])
                 supported == volume_confirmed /\ is_trend_appropriate(noted, trend)
             IN  SetKeys(noted, [confirmation |-> supported,
                                 confidence |-> IF supported
                                                THEN Min2(noted.confidence + 10, 100)
                                                ELSE noted.confidence])

\* a faulty variant of ValidateOne: a confirmed pattern is also rated High
ValidateOneUpgrading(pattern, df) ==
    LET idx == pattern.index
    IN  IF idx < trend_period THEN pattern
        ELSE LET trend == get_trend(df, idx)
                 volume_confirmed == check_volume(df, idx)
                 noted == SetKeys(pattern, [trend_context |-> trend,
                                            volume_confirmed |-> volume_confirmed])
             IN  IF volume_confirmed /\ is_trend_appropriate(noted, trend)
                 THEN SetKeys(noted, [confirmation |-> TRUE,
                                      confidence |-> Min2(noted.confidence + 10, 100),
                                      reliability |-> "High"])
                 ELSE noted

\* the body of the loop of validate_patterns
ValidateOne(pattern, df) ==
    LET idx == pattern.index
    IN  IF idx < trend_period THEN pattern
        ELSE LET trend == get_trend(df, idx)
                 volume_confirmed == check_volume(df, idx)
                 noted == SetKeys(pattern, [trend_context |-> trend,
                                            volume_confirmed |-> volume_confirmed])
             IN  IF volume_confirmed /\ is_trend_appropriate(noted, trend)
                 THEN SetKeys(noted, [confirmation |-> TRUE,
                                      confidence |-> Min2(noted.confidence + 10, 100)])
                 ELSE noted

\* validate_patterns: the dicts are changed in place and returned in input order
validate_patterns(ps, df) == [j \in DOMAIN ps |-> ValidateOne(ps[j], df)]

----------------------------------------------------------------------------
(* calculate_pattern_statistics *)

\* the positions in ps of the patterns called name
Occurrences(ps, name) == SelectSeq([j \in DOMAIN ps |-> j], LAMBDA j : ps[j].name = name)

\* a summary that counts a return of zero as a gain
SummaryNonNegative(outcomes) ==
    IF outcomes = <<>> THEN None
    ELSE LET gains == SelectSeq(outcomes, LAMBDA x : x >= 0)
             losses == SelectSeq(outcomes, LAMBDA x : x < 0)
         IN  Some([mean |-> Round2(SumSeq(outcomes), Len(outcomes)),
                   median |-> Median(outcomes),
                   success_rate |-> PercentRound1(Len(gains), Len(outcomes)),
                   avg_gain |-> IF gains # <<>> THEN Round2(SumSeq(gains), Len(gains))
                                ELSE 0,
                   avg_loss |-> IF losses # <<>> THEN Round2(SumSeq(losses), Len(losses))
                                ELSE 0,
                   count |-> Len(outcomes)])

\* the summary of one list of returns (in units of 0.0001 percent), or None
Summary(outcomes) ==
    IF outcomes = <<>> THEN None
    ELSE LET gains == SelectSeq(outcomes, LAMBDA x : x > 0)
             losses == SelectSeq(outcomes, LAMBDA x : x < 0)
         IN  Some([mean |-> Round2(SumSeq(outcomes), Len(outcomes)),
                   median |-> Median(outcomes),
                   success_rate |-> PercentRound1(Len(gains), Len(outcomes)),
                   avg_gain |-> IF gains # <<>> THEN Round2(SumSeq(gains), Len(gains))
                                ELSE 0,
                   avg_loss |-> IF losses # <<>> THEN Round2(SumSeq(losses), Len(losses))
                                ELSE 0,
                   count |-> Len(outcomes)])

\* a dict keyed by pattern name; {} when there are no patterns.  type is that
\* of the first occurrence, outcomes has one entry per horizon in Horizons order
calculate_pattern_statistics(ps, df) ==
    [name \in {ps[j].name : j \in DOMAIN ps} |->
        LET occ == Occurrences(ps, name)
        IN  [count |-> Len(occ),
             type |-> ps[occ[1]].type,
             outcomes |->
                [hk \in DOMAIN Horizons |->
                    LET horizon == Horizons[hk]
                        HasFuture(j) == ps[j].index + horizon < Len(df)
                        with == SelectSeq(occ, HasFuture)
                    IN  Summary([q \in DOMAIN with |->
                            ReturnPpm(At(df, ps[with[q]].index).close,
                                      At(df, ps[with[q]].index + horizon).close)])]]]

\* analyze_stock: recent_patterns
recent_patterns(ps, df) == SelectSeq(ps, LAMBDA p : p.index >= Len(df) - 30)

----------------------------------------------------------------------------
(* Spec: one request through analyze_stock.  The request arguments and the  *)
(* fetched series are the inputs.                                            *)

MaxTopN == 2
MaxExtra == 2
MaxScanWindow == 6
MaxBars == 95
MaxSeed == 1

\* lookbacks around the argument check and the two length checks
Lookbacks == {4, 5, MaxScanWindow, 40, 41, 90, 91}

\* series lengths around the length checks of the search for lookback W;
\* windows are only scanned for lookbacks up to MaxScanWindow
SearchLens(W) ==
    {0, W, W + 39, W + 40, 2 * W - 1, 2 * W}
    \cup (IF W <= MaxScanWindow THEN (W + 40)..(W + 40 + MaxExtra) ELSE {})

\* the tapes searched: one without and one with equal scores among its windows
SearchTapes == {1, 3}

\* a tape whose best windows end within the last ten bars before the query
LateTape == 2

\* series lengths around the 20-bar validation period, the 30-bar recent
\* range and the 90-bar detection lookback, and one beyond 90 + 30
CandleLens == {3, 21, 26, 40, 90, 91, MaxBars, 121}

NoResult == [raised |-> FALSE, error |-> NONE, matches |-> <<>>, predictions |-> <<>>,
             analysis |-> NoAnalysis, debug_info |-> NONE]

\* the variables of the similarity score, unused by a request
NoScore == qwin = <<>> /\ cwin = <<>> /\ score = None

Init ==
    /\ pc = "request"
    /\ \/ /\ lookback \in Lookbacks \ {90}
          /\ top_n \in 0..MaxTopN \cup {21}
          /\ \E t \in SearchTapes : \E N \in SearchLens(lookback) :
                series = MkSeries(t, 0, N)
       \/ /\ lookback = 5
          /\ top_n = 1
          /\ series = MkSeries(LateTape, 0, lookback + 40)
       \/ /\ lookback = 90
          /\ top_n = 1
          /\ \E t \in DOMAIN Tapes : \E seed \in 0..MaxSeed : \E N \in CandleLens :
                series = MkSeries(t, seed, N)
    /\ similar = NotCalled /\ pattern_result = NoResult /\ enhanced = <<>>
    /\ patterns = <<>> /\ validated = <<>> /\ pattern_stats = <<>> /\ recent = <<>>
    /\ NoScore

\* analyze_stock: the argument checks and the check of the fetched series
CheckRequest ==
    /\ pc = "request"
    /\ pc' = IF lookback < 5 \/ lookback > 90 THEN "error_400"
             ELSE IF top_n < 1 \/ top_n > 20 THEN "error_400"
             ELSE IF Len(series) = 0 THEN "error_404"
             ELSE "search"
    /\ UNCHANGED <<series, lookback, top_n, similar, pattern_result, enhanced, patterns,
                   validated, pattern_stats, recent, qwin, cwin, score>>

\* step 1: pattern_result = find_similar_patterns(df, top_n); an exception
\* ends the request in the handler's except clause
FindSimilarPatterns ==
    /\ pc = "search"
    /\ \E r \in find_similar_patterns(series, lookback, top_n) :
          /\ similar' = r.found
          /\ pattern_result' = r.result
          /\ pc' = IF r.result.raised THEN "error_500" ELSE "detect"
    /\ UNCHANGED <<series, lookback, top_n, enhanced, patterns, validated,
                   pattern_stats, recent, qwin, cwin, score>>

\* step 2: candlestick_patterns = detect_candlestick_patterns(df, 90)
DetectCandlestickPatterns ==
    /\ pc = "detect"
    /\ patterns' = detect_candlestick_patterns(series, 90)
    /\ pc' = "validate"
    /\ UNCHANGED <<series, lookback, top_n, similar, pattern_result, enhanced,
                   validated, pattern_stats, recent, qwin, cwin, score>>

\* step 3: validated_patterns = validate_patterns(candlestick_patterns, df);
\* the validator changes the dicts of candlestick_patterns themselves
ValidatePatterns ==
    /\ pc = "validate"
    /\ validated' = validate_patterns(patterns, series)
    /\ patterns' = validated'
    /\ pc' = "statistics"
    /\ UNCHANGED <<series, lookback, top_n, similar, pattern_result, enhanced,
                   pattern_stats, recent, qwin, cwin, score>>

\* step 4: pattern_stats = calculate_pattern_statistics(validated_patterns, df)
CalculatePatternStatistics ==
    /\ pc = "statistics"
    /\ pattern_stats' = calculate_pattern_statistics(validated, series)
    /\ pc' = "recent"
    /\ UNCHANGED <<series, lookback, top_n, similar, pattern_result, enhanced, patterns,
                   validated, recent, qwin, cwin, score>>

\* recent_patterns
RecentPatterns ==
    /\ pc = "recent"
    /\ recent' = recent_patterns(validated, series)
    /\ pc' = "enhance"
    /\ UNCHANGED <<series, lookback, top_n, similar, pattern_result, enhanced, patterns,
                   validated, pattern_stats, qwin, cwin, score>>

\* enhanced_matches, then the response
EnhanceMatches ==
    /\ pc = "enhance"
    /\ enhanced' = [idx \in DOMAIN pattern_result.matches |->
                      LET match == pattern_result.matches[idx]
                      IN  [rank |-> idx,
                           score |-> match.mmps,
                           mmps |-> match.mmps,
                           start_date |-> match.start_date,
                           end_date |-> match.end_date,
                           mmps_components |-> match.mmps_components,
                           future_returns |->
                               calculate_future_returns(series, match.start_idx, lookback)]]
    /\ pc' = "responded"
    /\ UNCHANGED <<series, lookback, top_n, similar, pattern_result, patterns, validated,
                   pattern_stats, recent, qwin, cwin, score>>

Next ==
    \/ CheckRequest
    \/ FindSimilarPatterns
    \/ DetectCandlestickPatterns
    \/ ValidatePatterns
    \/ CalculatePatternStatistics
    \/ RecentPatterns
    \/ EnhanceMatches

Spec == Init /\ [][Next]_vars

----------------------------------------------------------------------------
(* SpecMMPS: mmps_similarity applied to a pair of windows *)

MaxWin == 10
MmpsLens == {2, 5, 6, MaxWin}
MmpsWindows == {MkSeries(t, 0, L) : t \in DOMAIN Tapes, L \in MmpsLens}

\* the variables of a request, unused by a bare call
NoRequest ==
    /\ series = <<>> /\ lookback = 0 /\ top_n = 0
    /\ similar = NotCalled /\ pattern_result = NoResult /\ enhanced = <<>>
    /\ pattern_stats = <<>> /\ recent = <<>>

InitMMPS ==
    /\ pc = "mmps_call"
    /\ qwin \in MmpsWindows
    /\ cwin \in MmpsWindows
    /\ score = None
    /\ NoRequest /\ patterns = <<>> /\ validated = <<>>

MmpsCall ==
    /\ pc = "mmps_call"
    /\ score' = mmps_similarity(qwin, cwin)
    /\ pc' = "mmps_done"
    /\ UNCHANGED <<series, lookback, top_n, similar, pattern_result, enhanced, patterns,
                   validated, pattern_stats, recent, qwin, cwin>>

NextMMPS == MmpsCall

SpecMMPS == InitMMPS /\ [][NextMMPS]_vars

----------------------------------------------------------------------------
(* SpecValidator: validate_patterns applied to any list of well-formed      *)
(* patterns (confidence in 0..100) over a series                            *)

\* one name of each pattern type
InputKinds == {<<"Doji", NEUTRAL>>, <<"Hammer", REVERSAL_BULLISH>>,
               <<"Shooting Star", REVERSAL_BEARISH>>,
               <<"Three White Soldiers", BULLISH>>, <<"Three Black Crows", BEARISH>>}
InputConfidences == {0, 60, 95, 100}
\* bar indexes below, at and above trend_period
InputIndexes == {19, 20, 21, 25}
InputBars == 26

InputPattern(kind, confidence, i, df) ==
    Pattern(kind[1], kind[2], confidence, At(df, i).date, i, "given", "Medium",
            FALSE, [price |-> At(df, i).close])

\* N bars whose closes rise (up) or fall by one a bar, with the volumes of MkSeries
RampSeries(up, seed, N) ==
    [i \in 1..N |->
        MkBar(i, IF up THEN <<9 + i, 10 + i, 0, 0>> ELSE <<N + 11 - i, N + 10 - i, 0, 0>>,
              Volume(i - 1 + seed))]

\* the series the validator is given: the tapes, a steady rise and a steady fall
InputSeries ==
    {MkSeries(t, seed, InputBars) : t \in DOMAIN Tapes, seed \in 0..MaxSeed}
        \cup {RampSeries(up, seed, InputBars) : up \in BOOLEAN, seed \in 0..MaxSeed}

InitValidator ==
    /\ pc = "validate"
    /\ series \in InputSeries
    /\ \E kind \in InputKinds : \E c \in InputConfidences : \E i \in InputIndexes :
          \/ patterns = <<InputPattern(kind, c, i, series)>>
          \/ patterns = <<InputPattern(<<"Doji", NEUTRAL>>, 100, 19, series),
                          InputPattern(kind, c, i, series)>>
    /\ lookback = 90 /\ top_n = 1
    /\ similar = NotCalled
    /\ pattern_result = EmptyResult("Not enough historical data")
    /\ enhanced = <<>> /\ validated = <<>> /\ pattern_stats = <<>> /\ recent = <<>>
    /\ NoScore

NextValidator == ValidatePatterns

SpecValidator == InitValidator /\ [][NextValidator]_vars

----------------------------------------------------------------------------
(* The properties checked *)

\* find_similar_patterns has been called / has returned
Searched == pc \in {"detect", "validate", "statistics", "recent", "enhance",
                     "responded", "error_500"}
Returned == Searched /\ pc # "error_500"
\* detect_candlestick_patterns has returned
Detected == pc \in {"validate", "statistics", "recent", "enhance", "responded"}

\* C1: find_similar_patterns never raises for insufficient history: whenever
\* the series is shorter than W+40 or no longer than 2W, it returns a result
\* with no matches, signal NEUTRAL and a reason.
C1_NeverRaises ==
    (Searched /\ (Len(series) < lookback + 40 \/ Len(series) <= 2 * lookback))
    => /\ ~pattern_result.raised
       /\ pattern_result.matches = <<>>
       /\ pattern_result.analysis.signal = "NEUTRAL"
       /\ pattern_result.analysis.reason.text # NONE

\* C2: every detected pattern's index addresses, in the series the validator
\* and the aggregator are given, the bar the pattern is dated on.
C2_OwnBar ==
    Detected => \A j \in DOMAIN patterns :
                    At(series, patterns[j].index).date = patterns[j].date

\* C3: find_most_similar_pattern returns at most top_n rows, in order of
\* non-increasing score, and none when the series is shorter than 2W.
C3_TopNSortedDesc ==
    (Searched /\ similar # NotCalled /\ ~similar.raised)
    => /\ Len(similar.rows) <= top_n
       /\ \A j \in 1..(Len(similar.rows) - 1) :
             similar.rows[j].mmps >= similar.rows[j + 1].mmps
       /\ Len(series) < 2 * lookback => similar.rows = <<>>

\* a search of more than top_n windows returned top_n rows of different scores
C3_Witness ==
    /\ pc = "detect"
    /\ top_n = 2
    /\ Len(series) - 2 * lookback > top_n
    /\ Len(similar.rows) = 2
    /\ similar.rows[1].mmps > similar.rows[2].mmps

\* C4: whenever the series is shorter than 2W the caller gets the empty result
\* with the reason "Not enough historical data".
C4_NotEnoughData ==
    (Searched /\ Len(series) < 2 * lookback)
    => /\ ~pattern_result.raised
       /\ pattern_result.matches = <<>>
       /\ pattern_result.analysis.reason.text = "Not enough historical data"

\* C5: rows of equal score are in order of ascending start index.
C5_TiesByStartIndex ==
    Returned => \A j \in 1..(Len(pattern_result.matches) - 1) :
                    pattern_result.matches[j].mmps = pattern_result.matches[j + 1].mmps
                    => pattern_result.matches[j].start_idx
                         < pattern_result.matches[j + 1].start_idx

ScoreFields == {"final", "shape", "dtw", "structure", "trend", "volatility", "turning"}
ConstantCloses(df) == \A i, j \in DOMAIN df : df[i].close = df[j].close

\* C6: a window of two or more bars whose closes are not all equal scores 100
\* against itself, in the final score and in each of the six sub-scores.
C6_SelfSimilarity ==
    (pc = "mmps_done" /\ qwin = cwin /\ Len(qwin) >= 2 /\ ~ConstantCloses(qwin))
    => \A f \in ScoreFields : score[f] = PCT

\* C7: mmps_similarity(A, B) and mmps_similarity(B, A) return the same seven
\* values, for windows of equal and of unequal length.
C7_Symmetric ==
    pc = "mmps_done" => score = mmps_similarity(cwin, qwin)

\* C8: the seven values mmps_similarity returns lie in [0,100], also for
\* windows of constant closes and zero-range bars.
C8_Range ==
    pc = "mmps_done" => \A f \in ScoreFields : score[f] \in 0..PCT

\* a window of constant closes and zero-range bars scored against one that moves
C8_Witness ==
    /\ pc = "mmps_done"
    /\ ConstantCloses(qwin) /\ \A i \in DOMAIN qwin : qwin[i].high = qwin[i].low
    /\ ~ConstantCloses(cwin)
    /\ Len(qwin) # Len(cwin)

PatternNames ==
    {"Doji", "Hammer", "Shooting Star", "Spinning Top",
     "Bullish Engulfing", "Bearish Engulfing", "Bullish Harami", "Bearish Harami",
     "Piercing Line", "Dark Cloud Cover",
     "Morning Star", "Evening Star", "Three White Soldiers", "Three Black Crows"}
EmittedNames == {patterns[j].name : j \in DOMAIN patterns}

\* C10 as stated: the detector emits no more than 12 distinct names.
C10_TwelveNames == Detected => Cardinality(EmittedNames) <= 12

\* C10: every emitted pattern has a name of one closed set of exactly 14 names.
C10_FourteenNames ==
    /\ Cardinality(PatternNames) = 14
    /\ Detected => EmittedNames \subseteq PatternNames

\* one run of the detector emitted every name of the set
C10_Witness == Detected /\ EmittedNames = PatternNames

\* the bar of the series a pattern is dated on is one of its last 30 bars
OnLast30Bars(p) ==
    \E k \in Max2(0, Len(series) - 30)..(Len(series) - 1) : At(series, k).date = p.date

\* C11: the recent subset is exactly the validated patterns detected on one of
\* the last 30 bars of the series, in their order, for a series of any length.
C11_RecentLast30 ==
    pc \in {"enhance", "responded"} => recent = SelectSeq(validated, OnLast30Bars)

\* the validated patterns called name that have a bar h bars after their own
WithFuture(name, h) ==
    {j \in DOMAIN validated :
        validated[j].name = name /\ validated[j].index + h < Len(series)}

\* those of them after which the close h bars later is strictly higher
Gained(name, h) ==
    {j \in WithFuture(name, h) :
        At(series, validated[j].index + h).close > At(series, validated[j].index).close}

StatisticsDone == pc \in {"recent", "enhance", "responded"}

\* C12: for every pattern name and horizon h, with k occurrences that have a
\* bar at index + h of which p have a strictly positive return, the outcome is
\* None when k = 0 and otherwise has success_rate round(p / k * 100, 1) and
\* count k.
C12_SuccessRate ==
    StatisticsDone =>
        /\ DOMAIN pattern_stats = {validated[j].name : j \in DOMAIN validated}
        /\ \A name \in DOMAIN pattern_stats : \A hk \in DOMAIN Horizons :
              LET k == Cardinality(WithFuture(name, Horizons[hk]))
                  p == Cardinality(Gained(name, Horizons[hk]))
                  outcome == pattern_stats[name].outcomes[hk]
              IN  IF k = 0 THEN outcome = None
                  ELSE /\ outcome # None
                       /\ outcome[1].success_rate = PercentRound1(p, k)
                       /\ outcome[1].count = k

\* one name has a horizon without any sample and another name a horizon whose
\* samples are partly gains, one of the others being a return of zero
C12_Witness ==
    /\ StatisticsDone
    /\ \E name \in DOMAIN pattern_stats : \E hk \in DOMAIN Horizons :
          pattern_stats[name].outcomes[hk] = None
    /\ \E name \in DOMAIN pattern_stats : \E hk \in DOMAIN Horizons :
          /\ Gained(name, Horizons[hk]) # {}
          /\ \E j \in WithFuture(name, Horizons[hk]) :
                At(series, validated[j].index + Horizons[hk]).close
                    = At(series, validated[j].index).close

----------------------------------------------------------------------------
(* SpecEngine: _calculate_predictions, _generate_analysis and               *)
(* calculate_future_returns applied to any list of match rows over a series *)

MaxMatches == 2
EngineBars == 16
EngineLookbacks == {4, 5}
\* fused scores (in hundredths) below, at and above the thresholds 65 and 75
EngineScores == {6400, 6500, 6600, 7400, 7500, 7600}

\* start indexes whose window end has all horizons, all but the last, none, and
\* (the last one) lies past the series
EngineStarts(N, W) == {0, N - W - 10, N - W - 1, N - W}

EngineRow(df, W, i, s) ==
    [start_idx |-> i,
     mmps |-> s,
     mmps_components |-> [f \in ScoreFields |-> s],
     start_date |-> At(df, i).date,
     end_date |-> At(df, i + W - 1).date]

EngineRows(df, W) ==
    {EngineRow(df, W, i, s) : i \in EngineStarts(Len(df), W), s \in EngineScores}

InitEngine ==
    /\ pc = "predict"
    /\ lookback \in EngineLookbacks
    /\ top_n = MaxMatches
    /\ \E t \in SearchTapes : series = MkSeries(t, 0, EngineBars)
    /\ \E n \in 0..MaxMatches : \E ms \in [1..n -> EngineRows(series, lookback)] :
          pattern_result = [NoResult EXCEPT !.matches = ms]
    /\ similar = NotCalled
    /\ enhanced = <<>> /\ patterns = <<>> /\ validated = <<>>
    /\ pattern_stats = <<>> /\ recent = <<>>
    /\ NoScore

\* predictions = self._calculate_predictions(matches, df)
CalculatePredictions ==
    /\ pc = "predict"
    /\ pattern_result' =
          [pattern_result EXCEPT
              !.predictions = calculate_predictions(pattern_result.matches, series, lookback)]
    /\ pc' = "analyse"
    /\ UNCHANGED <<series, lookback, top_n, similar, enhanced, patterns, validated,
                   pattern_stats, recent, qwin, cwin, score>>

\* analysis = self._generate_analysis(matches, predictions)
GenerateAnalysis ==
    /\ pc = "analyse"
    /\ pattern_result' =
          [pattern_result EXCEPT !.analysis = generate_analysis(pattern_result.matches)]
    /\ pc' = "enhance"
    /\ UNCHANGED <<series, lookback, top_n, similar, enhanced, patterns, validated,
                   pattern_stats, recent, qwin, cwin, score>>

NextEngine ==
    \/ CalculatePredictions
    \/ GenerateAnalysis
    \/ EnhanceMatches

SpecEngine == InitEngine /\ [][NextEngine]_vars

\* v, in hundredths of a percent, is the percent change from base to future
\* rounded to two decimals
IsPercentChange(v, base, future) == 2 * Abs(v * base - (future - base) * PCT) <= base

\* C13: for a match whose window end e = start_idx + window_size is inside the
\* series, future_returns has for every horizon h the percent change from
\* close[e] to close[e + h] when e + h is a bar of the series, and null for
\* that horizon alone when it is not.
C13_FutureReturns ==
    pc = "responded" =>
        \A j \in DOMAIN enhanced :
            LET e == pattern_result.matches[j].start_idx + lookback
                returns == enhanced[j].future_returns
            IN  e < Len(series) =>
                  /\ returns # None
                  /\ DOMAIN returns[1] = DOMAIN Horizons
                  /\ \A hk \in DOMAIN Horizons :
                        IF e + Horizons[hk] < Len(series)
                        THEN /\ returns[1][hk] # None
                             /\ IsPercentChange(returns[1][hk][1], At(series, e).close,
                                                 At(series, e + Horizons[hk]).close)
                        ELSE returns[1][hk] = None

\* a match whose window end has a bar 7 bars later but none 10 bars later: a
\* non-zero return next to a null one
C13_Witness ==
    /\ pc = "responded"
    /\ \E j \in DOMAIN enhanced :
          /\ enhanced[j].future_returns # None
          /\ enhanced[j].future_returns[1][5] = None
          /\ enhanced[j].future_returns[1][4] # None
          /\ \E hk \in 1..4 : enhanced[j].future_returns[1][hk] \notin {None, Some(0)}

\* the sum of the fused scores of the matches, in hundredths
ScoreSum == SumSeq([j \in DOMAIN pattern_result.matches |-> pattern_result.matches[j].mmps])

Analysed == pc \in {"enhance", "responded"}

\* C14: with m the mean fused score of the matches, the analysis is BUY with
\* confidence 75 when m > 75, HOLD with confidence 60 when 65 < m <= 75 and
\* NEUTRAL with confidence 45 when m <= 65; the signal is one of the three, and
\* for an empty match list it is NEUTRAL with a reason.
C14_Signal ==
    Analysed =>
        LET n == Len(pattern_result.matches)
            analysis == pattern_result.analysis
        IN  /\ analysis.signal \in {"BUY", "HOLD", "NEUTRAL"}
            /\ analysis.reason.text # NONE
            /\ n = 0 => analysis.signal = "NEUTRAL"
            /\ n > 0 /\ ScoreSum > 7500 * n
                  => analysis.signal = "BUY" /\ analysis.confidence = 75
            /\ n > 0 /\ ScoreSum > 6500 * n /\ ScoreSum <= 7500 * n
                  => analysis.signal = "HOLD" /\ analysis.confidence = 60
            /\ n > 0 /\ ScoreSum <= 6500 * n
                  => analysis.signal = "NEUTRAL" /\ analysis.confidence = 45

\* two matches whose mean is exactly 75 have been analysed as HOLD
C14_Witness ==
    /\ Analysed
    /\ Len(pattern_result.matches) = 2
    /\ pattern_result.matches[1].mmps # pattern_result.matches[2].mmps
    /\ ScoreSum = 7500 * 2
    /\ pattern_result.analysis.signal = "HOLD"

\* the bars the detector scans: df.tail(90) with its index reset
ScannedBars == TailReset(series, 90)

\* bar i - 1 is bearish and bar i is a bullish bar that opens at or below its
\* close, closes at or above its open and has more than 0.9 times its body
Engulfs(df, i) ==
    LET prev == At(df, i - 1)
        curr == At(df, i)
    IN  /\ prev.close < prev.open
        /\ curr.close > curr.open
        /\ curr.open <= prev.close
        /\ curr.close >= prev.open
        /\ 10 * (curr.close - curr.open) > 9 * (prev.open - prev.close)

IsBullishEngulfing(p, i) ==
    /\ p.name = "Bullish Engulfing"
    /\ p.type = "reversal_bullish"
    /\ p.confidence = 85
    /\ p.confirmation = FALSE
    /\ p.index = i

\* C15: a bearish bar followed, at an index of 2 or more, by a bullish bar
\* that engulfs it is reported by the detector as Bullish Engulfing of type
\* reversal_bullish with confidence 85, unconfirmed, at the index of the
\* second bar.
C15_BullishEngulfing ==
    pc = "validate" =>
        \A i \in 2..(Len(ScannedBars) - 1) :
            Engulfs(ScannedBars, i)
                => \E j \in DOMAIN patterns : IsBullishEngulfing(patterns[j], i)

\* the detector has reported an engulfing pair at index 2 whose second bar
\* opens exactly at the close of the first
C15_Witness ==
    /\ pc = "validate"
    /\ Len(ScannedBars) > 2
    /\ Engulfs(ScannedBars, 2)
    /\ At(ScannedBars, 2).open = At(ScannedBars, 1).close
    /\ \E j \in DOMAIN patterns : IsBullishEngulfing(patterns[j], 2)

\* the gradient of the normalised closes of the trailing L bars of df has norm
\* zero: those closes are all equal
ZeroNormGradient(df) == ConstantCloses(Trailing(df, Min2(Len(qwin), Len(cwin))))

\* C16: when the gradient of either window has zero norm, the trend field of
\* the returned score is 0.
C16_ZeroGradientTrend ==
    (pc = "mmps_done" /\ (ZeroNormGradient(qwin) \/ ZeroNormGradient(cwin)))
        => score.trend = 0

\* volume[idx] > 1.2 x mean(volume[idx-20 .. idx-1])
VolumeRule(df, idx) ==
    LET sum == SumSeq([k \in 1..20 |-> At(df, idx - 21 + k).volume])
    IN  10 * 20 * At(df, idx).volume > 12 * sum

\* the trend each non-neutral pattern type requires
RequiredTrend ==
    [reversal_bullish |-> "downtrend", reversal_bearish |-> "uptrend",
     bullish |-> "uptrend", bearish |-> "downtrend"]

TrendRule(type, trend) ==
    type = "neutral" \/ (type \in DOMAIN RequiredTrend /\ RequiredTrend[type] = trend)

C18_EarlyUntouched ==
    [][pc = "validate" =>
        /\ Len(validated') = Len(patterns)
        /\ \A j \in DOMAIN patterns :
              patterns[j].index < 20
                  => validated'[j] = patterns[j] /\ patterns'[j] = patterns[j]]_vars

\* a pattern at index 19 has come out first and without the keys the validator
\* adds, ahead of a pattern at a later index that carries them
C18_Witness ==
    /\ pc = "statistics"
    /\ Len(validated) = 2
    /\ validated[1].index = 19
    /\ DOMAIN validated[2] = DOMAIN validated[1] \cup {"trend_context", "volume_confirmed"}
    /\ "trend_context" \notin DOMAIN validated[1]
    /\ validated[2].index >= 20

\* find_most_similar_pattern has just run its loop over the series
Scanned ==
    /\ pc \in {"detect", "error_500"}
    /\ similar # NotCalled
    /\ Len(series) >= 2 * lookback

\* C19: the windows find_most_similar_pattern scans start at 0, 1, ...,
\* N-2W-1, each once and in this order, and every one of them ends at or
\* before the first bar of the query window (the trailing W bars).
C19_ScanDisjoint ==
    Scanned =>
        LET N == Len(series)
            W == lookback
            starts == ScanStarts(N, W)
        IN  /\ Len(starts) = N - 2 * W
            /\ \A k \in DOMAIN starts :
                  /\ starts[k] = k - 1
                  /\ 0 <= starts[k]
                  /\ starts[k] + W <= N - W
            /\ \A j \in DOMAIN similar.rows :
                  /\ \E k \in DOMAIN starts : starts[k] = similar.rows[j].start_idx
                  /\ similar.rows[j].start_idx \in 0..(N - 2 * W - 1)
                  /\ similar.rows[j].end_date < At(series, N - W).date

\* the scan has returned its last window, the one that starts at N-2W-1
C19_Witness ==
    /\ Scanned
    /\ Len(series) > 2 * lookback + 1
    /\ \E j \in DOMAIN similar.rows :
          similar.rows[j].start_idx = Len(series) - 2 * lookback - 1

\* the matches that have a bar h bars after the end of their window
Sampled(h) ==
    {j \in DOMAIN pattern_result.matches :
        pattern_result.matches[j].start_idx + lookback + h < Len(series)}

Predicted == pc \in {"analyse", "enhance", "responded"}

\* C20: for a non-empty match list _calculate_predictions returns one entry
\* per horizon 1, 3, 5, 7, 10; the entry of a horizon for which no match has a
\* bar at start_idx + W + h has mean, median, std, min, max and positive_rate
\* null and count 0.
C20_EveryHorizon ==
    (Predicted /\ pattern_result.matches # <<>>) =>
        LET predictions == pattern_result.predictions
        IN  /\ DOMAIN predictions = DOMAIN Horizons
            /\ \A hk \in DOMAIN Horizons :
                  /\ predictions[hk].days = Horizons[hk]
                  /\ predictions[hk].count = Cardinality(Sampled(Horizons[hk]))
                  /\ Sampled(Horizons[hk]) = {} =>
                        /\ predictions[hk].count = 0
                        /\ \A f \in {"mean", "median", "std", "min", "max", "positive_rate"} :
                              predictions[hk][f] = None

\* the predictions of two matches of which neither has a bar 10 bars after
\* its window and one has a bar 7 bars after it
C20_Witness ==
    /\ Predicted
    /\ Len(pattern_result.matches) = 2
    /\ Sampled(10) = {}
    /\ Cardinality(Sampled(7)) = 1
    /\ pattern_result.predictions[5].mean = None
    /\ pattern_result.predictions[4].mean # None

----------------------------------------------------------------------------
(* SpecDetector: detect_all_patterns applied to a series *)

MaxDetectBars == 25

\* the series the detector is given: every tape at every length
DetectorSeries ==
    {MkSeries(t, seed, N) : t \in DOMAIN Tapes, seed \in 0..MaxSeed, N \in 0..MaxDetectBars}

\* bars of every shape with a body of at most MaxBody and shadows of 0 or 3
MaxBody == 3
BarPrices == 10..(10 + MaxBody)
BarShadows == {0, 3}
BarShapes ==
    {<<o, c, u, d>> : o \in BarPrices, c \in BarPrices, u \in BarShadows, d \in BarShadows}

\* three bars, the first without shadows
ThreeBars(a, b, c) ==
    [i \in 1..3 |-> MkBar(i, IF i = 1 THEN <<a[1], a[2], 0, 0>> ELSE IF i = 2 THEN b ELSE c,
                           Volume(i - 1))]

InitDetector ==
    /\ pc = "detect_all"
    /\ \/ series \in DetectorSeries
       \/ \E a \in BarPrices \X BarPrices : \E b \in BarShapes : \E c \in BarShapes :
             series = ThreeBars(a, b, c)
    /\ lookback = 90 /\ top_n = 1
    /\ similar = NotCalled /\ pattern_result = NoResult /\ enhanced = <<>>
    /\ patterns = <<>> /\ validated = <<>> /\ pattern_stats = <<>> /\ recent = <<>>
    /\ NoScore

\* all_patterns = self.detector.detect_all_patterns(df)
DetectAllPatterns ==
    /\ pc = "detect_all"
    /\ patterns' = detect_all_patterns(series)
    /\ pc' = "detected_all"
    /\ UNCHANGED <<series, lookback, top_n, similar, pattern_result, enhanced,
                   validated, pattern_stats, recent, qwin, cwin, score>>

NextDetector == DetectAllPatterns

SpecDetector == InitDetector /\ [][NextDetector]_vars

\* the records of patterns that carry index i, in their order
RecordsAt(i) == SelectSeq(patterns, LAMBDA p : p.index = i)

C22_Monotone ==
    [][pc = "validate" =>
        /\ Len(validated') = Len(patterns)
        /\ \A j \in DOMAIN patterns :
              /\ validated'[j].confidence >= patterns[j].confidence
              /\ patterns[j].confirmation => validated'[j].confirmation
              /\ validated'[j].name = patterns[j].name
              /\ validated'[j].index = patterns[j].index]_vars

\* a three-bar pattern the detector marked confirmed has been validated on a
\* bar without volume confirmation: still confirmed, at its own confidence
C22_Witness ==
    /\ pc = "statistics"
    /\ \E j \in DOMAIN validated :
          /\ validated[j].name \in {"Morning Star", "Evening Star"}
          /\ validated[j].index >= 20
          /\ validated[j].volume_confirmed = FALSE
          /\ validated[j].confirmation = TRUE
          /\ validated[j].confidence = 90
    /\ \E j \in 1..(Len(validated) - 1) : validated[j].index > validated[j + 1].index

\* the keys validate_patterns may write
ValidatorKeys == {"confidence", "confirmation", "trend_context", "volume_confirmed"}

\* C23: validate_patterns changes or adds no key of a pattern other than
\* confidence, confirmation, trend_context and volume_confirmed: name, type,
\* date, index, reliability, description and components stay as they were,
\* and so does the price series.
C23_Frame ==
    [][pc = "validate" =>
        /\ series' = series
        /\ Len(validated') = Len(patterns)
        /\ \A j \in DOMAIN patterns :
              /\ DOMAIN patterns[j] \subseteq DOMAIN validated'[j]
              /\ DOMAIN validated'[j] \subseteq DOMAIN patterns[j] \cup ValidatorKeys
              /\ {"name", "type", "date", "index", "reliability", "description",
                    "components"} \subseteq DOMAIN patterns[j] \ ValidatorKeys
              /\ \A f \in DOMAIN patterns[j] \ ValidatorKeys :
                    validated'[j][f] = patterns[j][f]]_vars

\* a pattern given with confidence 0 and rated Medium has been confirmed: it
\* carries the two added keys and its rating and description are the given ones
C23_Witness ==
    /\ pc = "statistics"
    /\ \E j \in DOMAIN validated :
          /\ validated[j].confirmation = TRUE
          /\ validated[j].confidence = 10
          /\ {"trend_context", "volume_confirmed"} \subseteq DOMAIN validated[j]
          /\ validated[j].reliability = "Medium"
          /\ validated[j].description = "given"

\* the names reported at index i
NamesAt(i) == {patterns[j].name : j \in {k \in DOMAIN patterns : patterns[k].index = i}}

\* the pairs of rules that oppose or contradict each other
Opposed ==
    {{"Bullish Engulfing", "Bearish Engulfing"}, {"Bullish Harami", "Bearish Harami"},
     {"Morning Star", "Evening Star"}, {"Three White Soldiers", "Three Black Crows"},
     {"Hammer", "Shooting Star"}, {"Doji", "Hammer"}, {"Doji", "Shooting Star"},
     {"Bullish Engulfing", "Bullish Harami"}, {"Bearish Engulfing", "Bearish Harami"}}

\* C24: over bars with high >= max(open, close) and low <= min(open, close)
\* the detector reports no two opposed rules at one index: not both
\* Engulfings, both Haramis, both Stars, Soldiers with Crows, Hammer with
\* Shooting Star, Doji with Hammer or Shooting Star, nor an Engulfing with the
\* Harami of its direction.
C24_NoOpposedRules ==
    pc = "detected_all" =>
        /\ \A k \in DOMAIN series :
              /\ series[k].high >= Max2(series[k].open, series[k].close)
              /\ series[k].low <= Min2(series[k].open, series[k].close)
        /\ \A i \in 0..(Len(series) - 1) : \A pair \in Opposed : ~(pair \subseteq NamesAt(i))

\* three rules of opposed pairs fire together on one bar without their
\* opposites: a hammer that engulfs the bar before it and completes a star
C24_Witness ==
    /\ pc = "detected_all"
    /\ {"Hammer", "Bullish Engulfing", "Morning Star"} \subseteq NamesAt(2)

\* the returned matches whose future_returns has a value for horizon number hk
WithReturn(hk) ==
    {j \in DOMAIN enhanced :
        enhanced[j].future_returns # None /\ enhanced[j].future_returns[1][hk] # None}

\* C25: for the matches a search returns, the count _calculate_predictions
\* reports for a horizon h is the number of matches whose future_returns has
\* a value for h; that value is present exactly when start_idx + W + h < N;
\* and no match has future_returns null as a whole, start_idx + W being a
\* bar of the series.
C25_ForwardReturnsAgree ==
    (pc = "responded" /\ pattern_result.matches # <<>>) =>
        /\ DOMAIN enhanced = DOMAIN pattern_result.matches
        /\ \A j \in DOMAIN enhanced :
              /\ pattern_result.matches[j].start_idx + lookback < Len(series)
              /\ enhanced[j].future_returns # None
              /\ \A hk \in DOMAIN Horizons :
                    j \in WithReturn(hk)
                        <=> pattern_result.matches[j].start_idx + lookback + Horizons[hk]
                              < Len(series)
        /\ \A hk \in DOMAIN Horizons :
              pattern_result.predictions[hk].count = Cardinality(WithReturn(hk))

\* of two returned matches one has a bar 10 bars after its window and the
\* other has a bar exactly 7 bars after it as the last bar of the series
C25_Witness ==
    /\ pc = "responded"
    /\ Len(enhanced) = 2
    /\ pattern_result.predictions[5].count = 1
    /\ Cardinality(WithReturn(5)) = 1
    /\ \E j \in DOMAIN enhanced :
          pattern_result.matches[j].start_idx + lookback + 5 = Len(series) - 1

====
